---- MODULE Spec2Model ----
(***************************************************************************)
(* The note store of src/notes_frontend/src/App.js (NotesProvider): the    *)
(* notes collection, the selection, the query, the sort order, the theme,  *)
(* localStorage, and the derived list filteredSortedNotes.                 *)
(*                                                                         *)
(* Spec creates, edits, deletes and selects notes from an empty             *)
(* localStorage; SpecStorage does it over a localStorage whose setItem may *)
(* throw; SpecView browses, deletes and clears a collection found in       *)
(* localStorage.                                                           *)
(*                                                                         *)
(* Strings are sequences of one-character strings; a timestamp is the      *)
(* number of milliseconds Date.now() returns; an ISO timestamp is the pair *)
(* <<seconds, milliseconds>> toISOString builds from it.                   *)
(***************************************************************************)
EXTENDS Integers, Sequences, FiniteSets, TLC

\* ------------------------------------------------------------------ bounds
MaxSteps == 3          \* operations run since the mount
MaxClock == 1          \* Date.now() ranges over 0..MaxClock
MaxWriteFailures == 1  \* localStorage.setItem calls that throw
MaxSeedNotes == 3      \* notes in a collection found in localStorage at the mount

\* ----------------------------------------------------------------- strings
\* null: no selected note, and what getItem gives for an absent key; a stored
\* text v is held as <<v>>
Null == <<>>

Untitled == <<"U", "n", "t", "i", "t", "l", "e", "d">>
NewNoteTitle == <<"N", "e", "w", " ", "n", "o", "t", "e">>
Blank == <<" ", " ">>
Light == "light"
Dark == "dark"

Range(s) == {s[i] : i \in 1..Len(s)}

\* String.prototype.toLowerCase, on the letters the model uses
LowerChar(c) ==
  CASE c = "A" -> "a"
    [] c = "B" -> "b"
    [] c = "N" -> "n"
    [] c = "U" -> "u"
    [] OTHER -> c

toLowerCase(s) == [i \in 1..Len(s) |-> LowerChar(s[i])]

\* String.prototype.trim: drops the leading and the trailing white space
RECURSIVE trimStart(_)
trimStart(s) ==
  IF s # <<>> /\ Head(s) = " " THEN trimStart(Tail(s)) ELSE s

RECURSIVE trimEnd(_)
trimEnd(s) ==
  IF s # <<>> /\ s[Len(s)] = " " THEN trimEnd(SubSeq(s, 1, Len(s) - 1)) ELSE s

trim(s) == trimEnd(trimStart(s))

\* s.startsWith(q, i - 1): q occurs in s at position i
OccursAt(s, q, i) ==
  /\ i + Len(q) - 1 <= Len(s)
  /\ \A k \in 1..Len(q) : s[i + k - 1] = q[k]

\* String.prototype.includes: scan the start positions left to right
RECURSIVE includesFrom(_, _, _)
includesFrom(s, q, i) ==
  IF i + Len(q) - 1 > Len(s) THEN FALSE
  ELSE IF OccursAt(s, q, i) THEN TRUE
  ELSE includesFrom(s, q, i + 1)

includes(s, q) == includesFrom(s, q, 1)

\* -------------------------------------------------------------- timestamps
\* Date.prototype.toISOString: the instant, split into seconds and milliseconds
toISOString(ms) == <<ms \div 1000, ms % 1000>>

\* new Date(iso), as the number the subtraction in the comparator uses
DateOf(iso) == iso[1] * 1000 + iso[2]

\* ---------------------------------------------------------------- storage
STORAGE_KEYS == [NOTES |-> "notes_manager__notes", THEME |-> "notes_manager__theme"]

\* the keys of a note object, in the order createNote writes them; the spreads
\* of updateNote and toggleArchive keep that order
NoteKeys == <<"id", "title", "content", "tags", "createdAt", "updatedAt", "archived">>

\* JSON.stringify of the notes array: each object as its <<key, value>> members
JSONstringify(arr) ==
  [i \in 1..Len(arr) |-> [k \in 1..Len(NoteKeys) |-> <<NoteKeys[k], arr[i][NoteKeys[k]]>>]]

\* JSON.parse of such a text: each member list back to an object
JSONparse(raw) ==
  [i \in 1..Len(raw) |->
     [key \in {m[1] : m \in Range(raw[i])} |->
        (CHOOSE m \in Range(raw[i]) : m[1] = key)[2]]]

\* ------------------------------------------------------------------ state
VARIABLES
  notes,          \* useState: the collection, most recently created first
  theme,          \* useState: 'light' | 'dark'
  query,          \* useState: the search text
  sortBy,         \* useState: 'updatedAt' | 'title' | 'createdAt'
  selectedId,     \* useState: a note id or null
  storage,        \* localStorage: key -> <<stored text>>, Null when absent
  now,            \* what Date.now() returns
  writeFailures,  \* how many localStorage.setItem calls have thrown
  steps,          \* history: how many operations have run
  lastOp,         \* history: the last operation, its arguments, selectedId before it
  toggles         \* history: the collections before the last two toggleArchive(id)
                  \* in a row, and the times of the two calls

vars == <<notes, theme, query, sortBy, selectedId, storage, now, writeFailures,
          steps, lastOp, toggles>>

NoOp == [name |-> "mount", id |-> Null, confirmed |-> FALSE, selBefore |-> Null]
Op(name, id, confirmed) ==
  [name |-> name, id |-> id, confirmed |-> confirmed, selBefore |-> selectedId]

\* one more operation has run
Ran(name, id, confirmed) ==
  /\ steps < MaxSteps
  /\ steps' = steps + 1
  /\ lastOp' = Op(name, id, confirmed)

NoToggles == [id |-> Null, n |-> 0, before1 |-> <<>>, before2 |-> <<>>, at1 |-> 0, at2 |-> 0]

Ids(arr) == {arr[i].id : i \in 1..Len(arr)}

\* ----------------------------------------------------------------- effects
\* localStorage.setItem inside try/catch: the write happens, or it throws and
\* the catch swallows it
setItem(store, key, value, ok) ==
  IF ok THEN [store EXCEPT ![key] = <<value>>] ELSE store

MayFail(ok) == ok \/ writeFailures < MaxWriteFailures

\* the effect writing the collection of the render before
PersistNotes_stale(next, ok) ==
  /\ MayFail(ok)
  /\ storage' = setItem(storage, STORAGE_KEYS.NOTES, JSONstringify(notes), ok)
  /\ writeFailures' = IF ok THEN writeFailures ELSE writeFailures + 1

\* the effect on [notes]: runs after every render that got a new notes array
PersistNotes(next, ok) ==
  /\ MayFail(ok)
  /\ storage' = setItem(storage, STORAGE_KEYS.NOTES, JSONstringify(next), ok)
  /\ writeFailures' = IF ok THEN writeFailures ELSE writeFailures + 1

\* the effect on [theme]
PersistTheme(next, ok) ==
  /\ MayFail(ok)
  /\ storage' = setItem(storage, STORAGE_KEYS.THEME, next, ok)
  /\ writeFailures' = IF ok THEN writeFailures ELSE writeFailures + 1

\* -------------------------------------------------------------------- Init
\* mounted over an empty localStorage: getItem gives null, so notes is [] and
\* theme is 'light'; then both effects have run once, their writes done or not
Mounted(okNotes, okTheme) ==
  /\ notes = <<>>
  /\ theme = Light
  /\ query = <<>>
  /\ sortBy = "updatedAt"
  /\ selectedId = Null
  /\ now = 0
  /\ writeFailures = (IF okNotes THEN 0 ELSE 1) + (IF okTheme THEN 0 ELSE 1)
  /\ writeFailures <= MaxWriteFailures
  /\ storage =
       setItem(
         setItem([k \in {STORAGE_KEYS.NOTES, STORAGE_KEYS.THEME} |-> Null],
                 STORAGE_KEYS.NOTES, JSONstringify(<<>>), okNotes),
         STORAGE_KEYS.THEME, Light, okTheme)
  /\ steps = 0
  /\ lastOp = NoOp
  /\ toggles = NoToggles

Init == Mounted(TRUE, TRUE)

InitStorage == \E okNotes \in BOOLEAN, okTheme \in BOOLEAN : Mounted(okNotes, okTheme)

\* -------------------------------------------------------------- operations
\* `${Date.now()}-${Math.random().toString(36).slice(2, 8)}`
genId(ms, rand) == <<ms, rand>>

\* data.title?.trim() || 'Untitled'
TitleOf(data) ==
  IF "title" \in DOMAIN data /\ trim(data.title) # <<>> THEN trim(data.title)
  ELSE Untitled

\* data.content || ''
ContentOf(data) == IF "content" \in DOMAIN data THEN data.content ELSE <<>>

\* Array.isArray(data.tags) ? data.tags : []
TagsOf(data) == IF "tags" \in DOMAIN data THEN data.tags ELSE <<>>

NewNote(data, rand) ==
  [id |-> genId(now, rand),
   title |-> TitleOf(data),
   content |-> ContentOf(data),
   tags |-> TagsOf(data),
   createdAt |-> toISOString(now),
   updatedAt |-> toISOString(now),
   archived |-> FALSE]

\* the new note put last
Prepend_append(newNote, prev) == prev \o <<newNote>>

\* setNotes(prev => [newNote, ...prev])
Prepend(newNote, prev) == <<newNote>> \o prev

createNote(data, rand, ok) ==
  /\ LET newNote == NewNote(data, rand) IN
       /\ Ran("createNote", newNote.id, FALSE)
       /\ notes' = Prepend(newNote, notes)
       /\ selectedId' = newNote.id
       /\ PersistNotes(notes', ok)
  /\ toggles' = NoToggles
  /\ UNCHANGED <<theme, query, sortBy, now>>

\* { ...n, ...updates }
Spread(n, updates) ==
  [k \in DOMAIN n \cup DOMAIN updates |->
     IF k \in DOMAIN updates THEN updates[k] ELSE n[k]]

\* { ...n, ...updates, updatedAt: new Date().toISOString() }
Updated(n, updates) ==
  [Spread(n, updates) EXCEPT !.updatedAt = toISOString(now)]

updateNote(id, updates, ok) ==
  /\ Ran("updateNote", id, FALSE)
  /\ notes' = [i \in 1..Len(notes) |->
                 IF notes[i].id = id THEN Updated(notes[i], updates) ELSE notes[i]]
  /\ PersistNotes(notes', ok)
  /\ toggles' = NoToggles
  /\ UNCHANGED <<theme, query, sortBy, selectedId, now>>

\* the flag set instead of flipped
Toggled_archive(n) ==
  [n EXCEPT !.archived = TRUE, !.updatedAt = toISOString(now)]

\* { ...n, archived: !n.archived, updatedAt: new Date().toISOString() }
Toggled(n) ==
  [n EXCEPT !.archived = ~n.archived, !.updatedAt = toISOString(now)]

toggleArchive(id, ok) ==
  /\ Ran("toggleArchive", id, FALSE)
  /\ notes' = [i \in 1..Len(notes) |->
                 IF notes[i].id = id THEN Toggled(notes[i]) ELSE notes[i]]
  /\ PersistNotes(notes', ok)
  /\ toggles' = IF toggles.n >= 1 /\ toggles.id = id
                THEN [id |-> id, n |-> 2, before1 |-> toggles.before2, before2 |-> notes,
                      at1 |-> toggles.at2, at2 |-> now]
                ELSE [id |-> id, n |-> 1, before1 |-> <<>>, before2 |-> notes,
                      at1 |-> 0, at2 |-> now]
  /\ UNCHANGED <<theme, query, sortBy, selectedId, now>>

\* prev.filter(n => n.id !== id)
Without(prev, id) == SelectSeq(prev, LAMBDA n : n.id # id)

\* the selection kept whatever is deleted
Deselect_keep(prev, id) == prev

\* prev => (prev === id ? null : prev)
Deselect(prev, id) == IF prev = id THEN Null ELSE prev

deleteNote(id, ok) ==
  /\ Ran("deleteNote", id, FALSE)
  /\ notes' = Without(notes, id)
  /\ selectedId' = Deselect(selectedId, id)
  /\ PersistNotes(notes', ok)
  /\ toggles' = NoToggles
  /\ UNCHANGED <<theme, query, sortBy, now>>

\* the answer of window.confirm ignored
clearAll_unconfirmed(confirmed, ok) ==
  /\ Ran("clearAll", Null, confirmed)
  /\ notes' = <<>>
  /\ selectedId' = Null
  /\ PersistNotes(notes', ok)
  /\ toggles' = NoToggles
  /\ UNCHANGED <<theme, query, sortBy, now>>

\* window.confirm answers `confirmed`
clearAll(confirmed, ok) ==
  /\ Ran("clearAll", Null, confirmed)
  /\ IF confirmed
     THEN /\ notes' = <<>>
          /\ selectedId' = Null
          /\ PersistNotes(notes', ok)
     ELSE /\ ok
          /\ UNCHANGED <<notes, selectedId, storage, writeFailures>>
  /\ toggles' = NoToggles
  /\ UNCHANGED <<theme, query, sortBy, now>>

setQuery(q) ==
  /\ Ran("setQuery", Null, FALSE)
  /\ query' = q
  /\ toggles' = NoToggles
  /\ UNCHANGED <<notes, theme, sortBy, selectedId, storage, now, writeFailures>>

setSortBy(key) ==
  /\ Ran("setSortBy", Null, FALSE)
  /\ sortBy' = key
  /\ toggles' = NoToggles
  /\ UNCHANGED <<notes, theme, query, selectedId, storage, now, writeFailures>>

setSelectedId(id) ==
  /\ Ran("setSelectedId", id, FALSE)
  /\ selectedId' = id
  /\ toggles' = NoToggles
  /\ UNCHANGED <<notes, theme, query, sortBy, storage, now, writeFailures>>

\* Header.onToggle: setTheme(theme === 'light' ? 'dark' : 'light')
setTheme(t, ok) ==
  /\ Ran("setTheme", Null, FALSE)
  /\ t # theme
  /\ theme' = t
  /\ PersistTheme(t, ok)
  /\ toggles' = NoToggles
  /\ UNCHANGED <<notes, query, sortBy, selectedId, now>>

\* time passes between two events
Tick ==
  /\ now < MaxClock
  /\ now' = now + 1
  /\ UNCHANGED <<notes, theme, query, sortBy, selectedId, storage, writeFailures,
                 steps, lastOp, toggles>>

\* ------------------------------------------------------------ derived list
\* the collation order of the characters the model uses, case aside
Alphabet == <<" ", "a", "b", "d", "e", "i", "l", "n", "o", "t", "u", "w">>

Primary(c) == CHOOSE k \in 1..Len(Alphabet) : Alphabet[k] = LowerChar(c)

\* lower case sorts before upper case when the letters are the same
Tertiary(c) == IF LowerChar(c) = c THEN 0 ELSE 1

Sign(x) == IF x < 0 THEN -1 ELSE IF x > 0 THEN 1 ELSE 0

\* the first difference of two weight sequences decides; a proper prefix is smaller
RECURSIVE CompareKeys(_, _, _)
CompareKeys(a, b, i) ==
  IF i > Len(a) /\ i > Len(b) THEN 0
  ELSE IF i > Len(a) THEN -1
  ELSE IF i > Len(b) THEN 1
  ELSE IF a[i] # b[i] THEN Sign(a[i] - b[i])
  ELSE CompareKeys(a, b, i + 1)

Primaries(s) == [i \in 1..Len(s) |-> Primary(s[i])]
Tertiaries(s) == [i \in 1..Len(s) |-> Tertiary(s[i])]

\* String.prototype.localeCompare: the letters decide, then their case
localeCompare(a, b) ==
  IF CompareKeys(Primaries(a), Primaries(b), 1) # 0
  THEN CompareKeys(Primaries(a), Primaries(b), 1)
  ELSE CompareKeys(Tertiaries(a), Tertiaries(b), 1)

\* the comparator given to sort
compare(a, b, key) ==
  IF key = "title" THEN localeCompare(a.title, b.title)
  ELSE IF key = "createdAt" THEN DateOf(b.createdAt) - DateOf(a.createdAt)
  ELSE DateOf(b.updatedAt) - DateOf(a.updatedAt)

\* the tags left out of the search
Matches_noTags(n, q) ==
  \/ includes(toLowerCase(n.title), q)
  \/ includes(toLowerCase(n.content), q)

\* the predicate given to filter
Matches(n, q) ==
  \/ includes(toLowerCase(n.title), q)
  \/ includes(toLowerCase(n.content), q)
  \/ \E k \in 1..Len(n.tags) : includes(toLowerCase(n.tags[k]), q)

\* notes.filter(...), or notes itself when q is empty: the positions kept, a
\* position standing for the identity of the note object at it
Kept(arr, q) ==
  IF q # <<>>
  THEN SelectSeq([i \in 1..Len(arr) |-> i], LAMBDA i : Matches(arr[i], q))
  ELSE [i \in 1..Len(arr) |-> i]

\* an unstable sort: an element goes before the equal elements already placed
RECURSIVE InsertInto_unstable(_, _, _, _)
InsertInto_unstable(arr, placed, i, key) ==
  IF placed = <<>> THEN <<i>>
  ELSE LET last == placed[Len(placed)] IN
       IF compare(arr[last], arr[i], key) >= 0
       THEN Append(InsertInto_unstable(arr, SubSeq(placed, 1, Len(placed) - 1), i, key), last)
       ELSE Append(placed, i)

\* Array.prototype.sort is stable: an element goes after every element already
\* placed that does not compare greater than it
RECURSIVE InsertInto(_, _, _, _)
InsertInto(arr, placed, i, key) ==
  IF placed = <<>> THEN <<i>>
  ELSE LET last == placed[Len(placed)] IN
       IF compare(arr[last], arr[i], key) > 0
       THEN Append(InsertInto(arr, SubSeq(placed, 1, Len(placed) - 1), i, key), last)
       ELSE Append(placed, i)

\* [...arr].sort(compare), on the positions
RECURSIVE Sorted(_, _, _)
Sorted(arr, kept, key) ==
  IF kept = <<>> THEN <<>>
  ELSE InsertInto(arr, Sorted(arr, SubSeq(kept, 1, Len(kept) - 1), key), kept[Len(kept)], key)

\* the useMemo on [notes, query, sortBy]: the positions in notes of the
\* elements of filteredSortedNotes, in its order; q is query.trim().toLowerCase()
VisiblePositionsOf(arr, text, key) == Sorted(arr, Kept(arr, toLowerCase(trim(text))), key)

VisibleOf(arr, text, key) ==
  LET at == VisiblePositionsOf(arr, text, key) IN [k \in 1..Len(at) |-> arr[at[k]]]

Needle == toLowerCase(trim(query))
VisiblePositions == VisiblePositionsOf(notes, query, sortBy)
filteredSortedNotes == VisibleOf(notes, query, sortBy)

\* ---------------------------------------------------------- specifications
Header_createNote == [title |-> NewNoteTitle]
BlankTitle == [title |-> Blank]
NoData == [content |-> <<>>]

\* what NoteEditor's onTitle, onContent and onTags send, in one patch
PatchText == [title |-> <<"A">>, content |-> <<"b">>, tags |-> << <<"a", "B">> >>]

Queries == {<<>>, <<" ", " ">>, <<"B">>, <<" ", "a", "B", " ">>}
SortKeys == {"updatedAt", "createdAt", "title"}

\* two of the texts Math.random().toString(36).slice(2, 8) can give
Suffixes == {"k3x9ab", "p0q1zz"}

\* the id of no note
UnknownId == genId(MaxClock + 1, "k3x9ab")

\* the id arguments: the id of a note, or an id that matches none
Targets == Ids(notes) \cup {UnknownId}

\* creating and editing notes, from an empty localStorage that takes every write
Next ==
  \/ \E rand \in Suffixes : createNote(Header_createNote, rand, TRUE)
  \/ \E rand \in Suffixes : createNote(BlankTitle, rand, TRUE)
  \/ \E rand \in Suffixes : createNote(NoData, rand, TRUE)
  \/ \E id \in Targets : updateNote(id, PatchText, TRUE)
  \/ \E id \in Targets, other \in Ids(notes) : updateNote(id, [id |-> other], TRUE)
  \/ \E id \in Targets, t \in 0..MaxClock :
       updateNote(id, [createdAt |-> toISOString(t)], TRUE)
  \/ \E id \in Targets : updateNote(id, [updatedAt |-> toISOString(MaxClock)], TRUE)
  \/ \E id \in Targets : toggleArchive(id, TRUE)
  \/ \E id \in Targets : deleteNote(id, TRUE)
  \/ clearAll(TRUE, TRUE)
  \/ clearAll(FALSE, TRUE)
  \/ \E id \in Ids(notes) \cup {Null} : setSelectedId(id)
  \/ Tick

Spec == Init /\ [][Next]_vars

\* the operations that change the collection, and the theme toggle, over a
\* localStorage whose setItem may throw
NextStorage ==
  \/ \E rand \in Suffixes, ok \in BOOLEAN : createNote(Header_createNote, rand, ok)
  \/ \E id \in Targets, ok \in BOOLEAN : updateNote(id, PatchText, ok)
  \/ \E id \in Targets, ok \in BOOLEAN : toggleArchive(id, ok)
  \/ \E id \in Targets, ok \in BOOLEAN : deleteNote(id, ok)
  \/ \E ok \in BOOLEAN : clearAll(TRUE, ok)
  \/ clearAll(FALSE, TRUE)
  \/ \E ok \in BOOLEAN : setTheme(IF theme = Light THEN Dark ELSE Light, ok)
  \/ Tick

SpecStorage == InitStorage /\ [][NextStorage]_vars

\* notes an earlier session has stored
Seed(ms, rand, title, content, tags, updatedMs, archived) ==
  [id |-> genId(ms, rand),
   title |-> title,
   content |-> content,
   tags |-> tags,
   createdAt |-> toISOString(ms),
   updatedAt |-> toISOString(updatedMs),
   archived |-> archived]

SeedNotes ==
  { Seed(0, "k3x9ab", <<"b">>, <<>>, <<>>, 0, FALSE),
    Seed(0, "p0q1zz", <<"B">>, <<"a", "B", "a">>, <<>>, 1, TRUE),
    Seed(1, "k3x9ab", <<"b">>, <<>>, << <<"a">>, <<"A", "b">> >>, 1, FALSE),
    Seed(1, "p0q1zz", <<"a", " ", "a">>, <<"a">>, <<>>, 1, FALSE) }

SeedCollections ==
  UNION { { c \in [1..n -> SeedNotes] : \A i, j \in 1..n : i # j => c[i] # c[j] }
          : n \in 0..MaxSeedNotes }

\* mounted over a localStorage that holds a collection: notes is
\* JSON.parse(localStorage.getItem(STORAGE_KEYS.NOTES)), and both effects have run
InitView ==
  /\ \E c \in SeedCollections :
       /\ storage = [k \in {STORAGE_KEYS.NOTES, STORAGE_KEYS.THEME} |->
                       IF k = STORAGE_KEYS.NOTES THEN <<JSONstringify(c)>> ELSE <<Light>>]
       /\ notes = JSONparse(storage[STORAGE_KEYS.NOTES][1])
  /\ theme = Light
  /\ query = <<>>
  /\ sortBy = "updatedAt"
  /\ selectedId = Null
  /\ now = MaxClock
  /\ writeFailures = 0
  /\ steps = 0
  /\ lastOp = NoOp
  /\ toggles = NoToggles

\* browsing, deleting and clearing a stored collection, localStorage taking
\* every write
NextView ==
  \/ \E q \in Queries : setQuery(q)
  \/ \E key \in SortKeys : setSortBy(key)
  \/ \E id \in Ids(notes) \cup {Null} : setSelectedId(id)
  \/ \E id \in Targets : deleteNote(id, TRUE)
  \/ clearAll(TRUE, TRUE)
  \/ clearAll(FALSE, TRUE)
  \/ setTheme(IF theme = Light THEN Dark ELSE Light, TRUE)

SpecView == InitView /\ [][NextView]_vars

\* ------------------------------------------------------------------ claims
Stamp(n, field) == DateOf(n[field])

\* the step is the operation `name`
Did(name) == steps' # steps /\ lastOp'.name = name

\* C1: no two notes of the collection have the same id.
C1_UniqueIds ==
  \A i, j \in 1..Len(notes) : i # j => notes[i].id # notes[j].id

\* C2: a note keeps its id and its createdAt: an operation that keeps the length
\* of the collection (updateNote, toggleArchive) leaves both as they were at
\* every position, and createNote leaves them as they were in the notes it
\* shifts by one.
C2_IdAndCreatedAtNeverChange ==
  [][ LET shift == Len(notes') - Len(notes) IN
        shift \in {0, 1} =>
          \A i \in 1..Len(notes) :
            /\ notes'[i + shift].id = notes[i].id
            /\ notes'[i + shift].createdAt = notes[i].createdAt ]_vars

\* C3: updatedAt >= createdAt for every note of the collection.
C3_UpdatedNotBeforeCreated ==
  \A i \in 1..Len(notes) : Stamp(notes[i], "updatedAt") >= Stamp(notes[i], "createdAt")

CollectionOps == {"createNote", "updateNote", "toggleArchive", "deleteNote"}

ChangedCollection(op) ==
  op.name \in CollectionOps \/ (op.name = "clearAll" /\ op.confirmed)

StoredIs(store, arr) ==
  /\ store[STORAGE_KEYS.NOTES] # Null
  /\ JSONparse(store[STORAGE_KEYS.NOTES][1]) = arr

\* C4 as stated: once an operation that changes the collection has completed,
\* the text stored under notes_manager__notes parses to the current collection.
C4_StoredIsCurrent ==
  ChangedCollection(lastOp) => StoredIs(storage, notes)

\* C4 as amended: an operation that changes the collection either stores the
\* whole new collection, or its write throws and the stored text stays as it was.
C4_StoredIsCurrentUnlessWriteFails ==
  [][ (steps' # steps /\ ChangedCollection(lastOp')) =>
        \/ writeFailures' = writeFailures /\ StoredIs(storage', notes')
        \/ writeFailures' = writeFailures + 1 /\ storage' = storage ]_vars

\* a second note created and stored whole, after a write that had failed
C4_Witness ==
  /\ lastOp.name = "createNote"
  /\ Len(notes) = 2
  /\ writeFailures = 1
  /\ StoredIs(storage, notes)

\* the position in arr of the k-th note whose id is not id
KthOther(arr, id, k) ==
  CHOOSE i \in 1..Len(arr) :
    /\ arr[i].id # id
    /\ Cardinality({j \in 1..i : arr[j].id # id}) = k

\* C5: deleteNote(id) leaves the notes with another id, in their order, and no
\* note with that id; selectedId becomes none when it was id and is unchanged
\* otherwise; no note with that id is in filteredSortedNotes.
C5_DeleteRemovesAndDeselects ==
  [][ Did("deleteNote") =>
        LET id == lastOp'.id IN
          /\ Len(notes') = Cardinality({j \in 1..Len(notes) : notes[j].id # id})
          /\ \A k \in 1..Len(notes') : notes'[k] = notes[KthOther(notes, id, k)]
          /\ selectedId' = (IF selectedId = id THEN Null ELSE selectedId)
          /\ \A n \in Range(VisibleOf(notes', query', sortBy')) : n.id # id ]_vars

\* the selected note deleted while a query is set, other notes remaining
C5_Witness ==
  /\ lastOp.name = "deleteNote"
  /\ lastOp.selBefore = lastOp.id
  /\ lastOp.id # Null
  /\ selectedId = Null
  /\ Len(notes) >= 1
  /\ Needle # <<>>

\* C6: createNote puts the new note first, before the notes there were, which
\* stay as they were and in their order, and selects it.
C6_CreatePrependsAndSelects ==
  [][ Did("createNote") =>
        /\ Len(notes') = Len(notes) + 1
        /\ \A i \in 1..Len(notes) : notes'[i + 1] = notes[i]
        /\ notes'[1].id = lastOp'.id
        /\ selectedId' = lastOp'.id ]_vars

\* B created after A: the collection is [B, A] and B is selected
C6_Witness ==
  /\ lastOp.name = "createNote"
  /\ Len(notes) = 2
  /\ notes[1].id # notes[2].id
  /\ Stamp(notes[1], "createdAt") > Stamp(notes[2], "createdAt")
  /\ selectedId = notes[1].id

\* C7: a rejected clearAll changes nothing of the store; an accepted one
\* empties the collection and clears the selection.
C7_ClearAllIsConfirmed ==
  [][ Did("clearAll") =>
        IF lastOp'.confirmed
        THEN notes' = <<>> /\ selectedId' = Null
        ELSE UNCHANGED <<notes, selectedId, query, sortBy, theme>> ]_vars

\* clearAll rejected over a collection with a selection, a query and the dark theme
C7_Witness ==
  /\ lastOp.name = "clearAll"
  /\ ~lastOp.confirmed
  /\ Len(notes) >= 2
  /\ selectedId # Null
  /\ theme = Dark

\* q occurs in s somewhere
Contains(s, q) ==
  \E a \in 1..(Len(s) + 1) : \E b \in 0..Len(s) : SubSeq(s, a, b) = q

FoldedContains(s, q) == Contains(toLowerCase(s), q)

\* C8: with an empty trimmed and folded query every note is in
\* filteredSortedNotes, once; otherwise exactly the notes whose folded title,
\* content or one of whose folded tags contains it are, once each.
C8_FilterKeepsTheMatches ==
  /\ \A k, l \in 1..Len(VisiblePositions) :
       k # l => VisiblePositions[k] # VisiblePositions[l]
  /\ Range(VisiblePositions) =
       IF Needle = <<>> THEN 1..Len(notes)
       ELSE { i \in 1..Len(notes) :
                \/ FoldedContains(notes[i].title, Needle)
                \/ FoldedContains(notes[i].content, Needle)
                \/ \E t \in Range(notes[i].tags) : FoldedContains(t, Needle) }

\* a query that trimming and folding change, which keeps a note for its tag
\* alone and drops another note
C8_Witness ==
  /\ Needle # <<>>
  /\ Needle # query
  /\ Len(filteredSortedNotes) < Len(notes)
  /\ \E k \in 1..Len(filteredSortedNotes) :
       LET n == filteredSortedNotes[k] IN
         /\ ~FoldedContains(n.title, Needle)
         /\ ~FoldedContains(n.content, Needle)

\* the key filteredSortedNotes is ordered by: smaller is earlier
Before(a, b) ==
  IF sortBy = "title" THEN localeCompare(a.title, b.title) < 0
  ELSE IF sortBy = "createdAt" THEN Stamp(a, "createdAt") > Stamp(b, "createdAt")
  ELSE Stamp(a, "updatedAt") > Stamp(b, "updatedAt")

\* C9: filteredSortedNotes is in ascending order of title, or in descending
\* order of createdAt or updatedAt, as sortBy says, and notes with equal keys
\* are in the order they have in the collection.
C9_SortedAndStable ==
  \A k, l \in 1..Len(VisiblePositions) :
    k < l =>
      LET a == notes[VisiblePositions[k]]
          b == notes[VisiblePositions[l]]
      IN /\ ~Before(b, a)
         /\ ~Before(a, b) => VisiblePositions[k] < VisiblePositions[l]

\* sorted by title, three notes, two of them with the same title, in an order
\* that is not the order of the collection
C9_Witness ==
  /\ sortBy = "title"
  /\ Len(VisiblePositions) = 3
  /\ \E k \in 1..2 :
       /\ filteredSortedNotes[k].title = filteredSortedNotes[k + 1].title
       /\ filteredSortedNotes[k].id # filteredSortedNotes[k + 1].id
  /\ \E k \in 1..2 : VisiblePositions[k] > VisiblePositions[k + 1]

SameButArchivedAndUpdatedAt(a, b) ==
  /\ a.id = b.id
  /\ a.title = b.title
  /\ a.content = b.content
  /\ a.tags = b.tags
  /\ a.createdAt = b.createdAt

\* the notes toggleArchive(toggles.id) was called on twice in a row
ToggledTwice ==
  IF toggles.n = 2
  THEN {i \in 1..Len(toggles.before1) : toggles.before1[i].id = toggles.id}
  ELSE {}

\* C10 as stated: after toggleArchive(id) twice in a row the note has its first
\* archived flag, id, title, content, tags and createdAt, and updatedAt is
\* strictly later after each toggle than before it.
C10_TwoTogglesAdvanceTwice ==
  \A i \in ToggledTwice :
    /\ notes[i].archived = toggles.before1[i].archived
    /\ SameButArchivedAndUpdatedAt(notes[i], toggles.before1[i])
    /\ Stamp(toggles.before2[i], "updatedAt") > Stamp(toggles.before1[i], "updatedAt")
    /\ Stamp(notes[i], "updatedAt") > Stamp(toggles.before2[i], "updatedAt")

\* C10 as amended: the same, and updatedAt is after each toggle the time of that
\* toggle, which is not earlier than updatedAt was before it.
C10_TwoTogglesStampTwice ==
  \A i \in ToggledTwice :
    /\ notes[i].archived = toggles.before1[i].archived
    /\ SameButArchivedAndUpdatedAt(notes[i], toggles.before1[i])
    /\ toggles.before2[i].updatedAt = toISOString(toggles.at1)
    /\ notes[i].updatedAt = toISOString(toggles.at2)
    /\ Stamp(toggles.before2[i], "updatedAt") >= Stamp(toggles.before1[i], "updatedAt")
    /\ Stamp(notes[i], "updatedAt") >= Stamp(toggles.before2[i], "updatedAt")

\* a note toggled twice, in the millisecond of its creation and one later
C10_Witness ==
  \E i \in ToggledTwice :
    /\ notes[i].archived = toggles.before1[i].archived
    /\ Stamp(toggles.before2[i], "updatedAt") = Stamp(toggles.before1[i], "updatedAt")
    /\ Stamp(notes[i], "updatedAt") > Stamp(toggles.before2[i], "updatedAt")

====
